---- MODULE Spec2Model ----
(***************************************************************************)
(* Premam Silks storefront: the order-creation and payment-settlement      *)
(* handshake (cloud functions createOrder and verifyPayment), the browser  *)
(* checkout that writes orders directly to the document store, and the     *)
(* administrator's catalog / settings / order-status writes.               *)
(***************************************************************************)
EXTENDS Integers, Sequences, FiniteSets, TLC

(***************************************************************************)
(* Bounds of the model.                                                    *)
(***************************************************************************)
\* order documents that may be added to the orders collection
MaxOrders == 1
\* settlement batches that may be committed in one behaviour
MaxCommits == 2
\* order documents where the claim is about one order beside another
MaxLedgerOrders == 2
\* contact messages that may be stored in one behaviour
MaxMessages == 2
\* newsletter documents that may be stored in one behaviour
MaxSubscribers == 3
\* auth state changes that may wait for the listener at one time
MaxAuthEvents == 3
\* the largest quantity a cart item may reach
MaxQuantity == 3

(***************************************************************************)
(* Optional values: a JavaScript field that may be undefined.              *)
(***************************************************************************)
None == << >>
Some(v) == << v >>
Val(o) == o[1]

(***************************************************************************)
(* Program constants.                                                      *)
(***************************************************************************)
\* settings.freeShippingThreshold || 25000
DefaultFreeShippingThreshold == 25000
\* settings.shippingCost || 500
DefaultShippingCost == 500
\* settings.gst || 5
DefaultGstRate == 5
\* amount: totalAmount * 100 (paise)
PaisePerRupee == 100
\* APP_CONFIG of the browser: freeShippingThreshold, shippingCost, gst
AppFreeShippingThreshold == 25000
AppShippingCost == 500
AppGst == 0
\* document.getElementById('productStock').value = product.stock ?? 10
FormDefaultStock == 10

\* process.env.RAZORPAY_KEY_SECRET, and a key the server does not hold
KeySecret == "key_secret"
OtherSecret == "other_secret"

\* ADMIN_CONFIG.allowedEmails
AllowedEmails == {"premamsilks@gmail.com"}
\* the accounts a browser session may be signed in with ("" is signed out)
Users == {"", "premamsilks@gmail.com", "customer@example.com"}

StatusValues == {"pending", "paid", "processing", "shipped", "delivered", "cancelled"}

RequestSlots == 1..2

(***************************************************************************)
(* The catalog and the inputs the environment may submit.                  *)
(***************************************************************************)
CatalogIds == {"p1", "p2"}
\* an identifier no product document has
MissingId == "px"
\* prices an administrator may set
Prices == {333, 1000}
\* payment references the gateway hands out
PaymentIds == {"pay_1", "pay_2"}

(***************************************************************************)
(* JavaScript helpers.                                                     *)
(***************************************************************************)
\* doc.exists ? doc.data().f : undefined
Field(doc, f) == IF doc = None THEN None ELSE Some(Val(doc)[f])

\* v || d, for a numeric v: undefined and 0 are falsy
JsOr(v, d) == IF v = None \/ Val(v) = 0 THEN d ELSE Val(v)

\* Math.round(num / den), den > 0: the nearest integer, a half rounding up
MathRound(num, den) == (2 * num + den) \div (2 * den)

\* crypto.createHmac("sha256", secret).update(`${orderRef}|${paymentRef}`).digest("hex"):
\* a keyed hash, taken to be free of collisions
Hmac(secret, orderRef, paymentRef) == << "hmac", secret, orderRef, paymentRef >>

RECURSIVE SumSeq(_)
SumSeq(s) == IF s = << >> THEN 0 ELSE Head(s) + SumSeq(Tail(s))

(***************************************************************************)
(* createOrder (cloud function): validation and server-side pricing.       *)
(***************************************************************************)
\* the three validation guards before any read
validateOrderRequest(req) ==
    IF Len(req.items) = 0
    THEN << "Cart items are required" >>
    ELSE IF req.customer.name = "" \/ req.customer.email = "" \/ req.customer.phone = ""
    THEN << "Customer details are required" >>
    ELSE IF req.shippingAddress.address = "" \/ req.shippingAddress.city = ""
            \/ req.shippingAddress.pincode = ""
    THEN << "Shipping address is required" >>
    ELSE << >>

\* a pricing that would trust the price the client posted with the line
clientUnitPrice(product, line) == IF line.price = None THEN product.price ELSE Val(line.price)

\* the unit price charged for a cart line: the catalog's
unitPrice(product, line) == product.price

\* a stock check that would read an absent stock field as 0
outOfStockAbsentAsZero(product, line) ==
    (IF product.stock = None THEN 0 ELSE Val(product.stock)) < line.quantity

\* the stock check of one cart line
outOfStock(product, line) == product.stock # None /\ Val(product.stock) < line.quantity

\* a loop that would skip the lines whose product document does not exist
RECURSIVE verifyItemsSkippingMissing(_, _, _, _, _)
verifyItemsSkippingMissing(items, productsSnap, i, subtotal, verifiedItems) ==
    IF i > Len(items)
    THEN [error |-> << >>, subtotal |-> subtotal, verifiedItems |-> verifiedItems]
    ELSE IF items[i].productId \notin DOMAIN productsSnap
    THEN verifyItemsSkippingMissing(items, productsSnap, i + 1, subtotal, verifiedItems)
    ELSE LET product == productsSnap[items[i].productId] IN
         IF product.stock # None /\ Val(product.stock) < items[i].quantity
         THEN [error |-> << "out of stock", items[i].productId, product.stock >>,
               subtotal |-> subtotal, verifiedItems |-> verifiedItems]
         ELSE verifyItemsSkippingMissing(items, productsSnap, i + 1,
                          subtotal + product.price * items[i].quantity,
                          Append(verifiedItems,
                                 [productId |-> items[i].productId,
                                  price |-> product.price,
                                  quantity |-> items[i].quantity]))

\* the loop over the cart lines, from line i on, over the documents getAll returned
RECURSIVE verifyItems(_, _, _, _, _)
verifyItems(items, productsSnap, i, subtotal, verifiedItems) ==
    IF i > Len(items)
    THEN [error |-> << >>, subtotal |-> subtotal, verifiedItems |-> verifiedItems]
    ELSE IF items[i].productId \notin DOMAIN productsSnap
    THEN [error |-> << "Product not found", items[i].productId >>,
          subtotal |-> subtotal, verifiedItems |-> verifiedItems]
    ELSE LET product == productsSnap[items[i].productId] IN
         IF outOfStock(product, items[i])
         THEN [error |-> << "out of stock", items[i].productId, product.stock >>,
               subtotal |-> subtotal, verifiedItems |-> verifiedItems]
         ELSE verifyItems(items, productsSnap, i + 1,
                          subtotal + unitPrice(product, items[i]) * items[i].quantity,
                          Append(verifiedItems,
                                 [productId |-> items[i].productId,
                                  price |-> unitPrice(product, items[i]),
                                  quantity |-> items[i].quantity]))

\* settings.freeShippingThreshold || 25000, settings.shippingCost || 500, settings.gst || 5
freeShippingThresholdOf(settingsDoc) ==
    JsOr(Field(settingsDoc, "freeShippingThreshold"), DefaultFreeShippingThreshold)
shippingCostOf(settingsDoc) == JsOr(Field(settingsDoc, "shippingCost"), DefaultShippingCost)
gstRateOf(settingsDoc) == JsOr(Field(settingsDoc, "gst"), DefaultGstRate)

\* shipping, gst and totalAmount of a subtotal under the settings document read
shippingFor(subtotal, settingsDoc) ==
    IF subtotal >= freeShippingThresholdOf(settingsDoc) THEN 0 ELSE shippingCostOf(settingsDoc)
gstFor(subtotal, settingsDoc) == MathRound(subtotal * gstRateOf(settingsDoc), 100)
totalFor(subtotal, settingsDoc) ==
    subtotal + shippingFor(subtotal, settingsDoc) + gstFor(subtotal, settingsDoc)

\* itemCount: verifiedItems.reduce((sum, i) => sum + i.quantity, 0)
itemCountOf(items) == SumSeq([i \in 1..Len(items) |-> items[i].quantity])

VARIABLES
    products,       \* products collection: id -> [price, stock]
    settings,       \* settings/store document: None or Some([freeShippingThreshold, shippingCost, gst])
    orders,         \* orders collection: sequence of order documents, the id is the index
    gatewayOrders,  \* orders created at the payment gateway: sequence of amounts in paise, the id is the index
    co,             \* the createOrder request in flight (position and locals)
    vp,             \* the verifyPayment requests in flight (position and locals), per request slot
    checkout,       \* the browser checkout: position, order id and order data of processPayment
    last,           \* the operation that completed last and its response
    audit,          \* history, per order: who created it and the catalog / settings read for it
    settled,        \* history, per order: the status each committed settlement had read
    contactMessages,\* contactMessages collection: sequence of stored contact documents
    sc,             \* the submitContact request in flight (position and locals)
    outbox,         \* the notification mails the mail transport accepted
    auth,           \* Firebase auth of the admin page: the signed-in e-mail, or none
    adminPage,      \* the admin page: the layout shown, currentUser, dashboard data loaded
    signIn,         \* the signInWithPopup promise the sign-in button awaits, when pending
    authListener,   \* the auth state changes not yet delivered to the onAuthStateChange callback
    newsletter,     \* newsletter collection: sequence of stored e-mail addresses
    sn,             \* the subscribeNewsletter requests in flight (position and locals), per slot
    premamCart,     \* PremamCart's cartItems: sequence of [id, price, quantity]
    localStorage    \* the entry premam_cart of the browser's local storage, or none

adminVars == << auth, adminPage, signIn, authListener >>
newsletterVars == << newsletter, sn >>
cartVars == << premamCart, localStorage >>

vars == << products, settings, orders, gatewayOrders, co, vp, checkout, last, audit, settled,
          contactMessages, sc, outbox, adminVars, newsletterVars, cartVars >>

(***************************************************************************)
(* Documents, requests and responses.                                      *)
(***************************************************************************)
Idle == [pc |-> "idle"]

\* an HTTP response, or the completion of a browser or administrator operation
Response(fn, status, error, body) ==
    [fn |-> fn, status |-> status, error |-> error, body |-> body]

\* a cart line as a client posts it: the price field is the client's own and optional
Line(id, quantity, price) == [productId |-> id, quantity |-> quantity, price |-> price]

ValidCustomer == [name |-> "Asha", email |-> "asha@example.com", phone |-> "9876543210"]
ValidAddress == [address |-> "12 Temple Street", city |-> "Chennai", state |-> "TN",
                 pincode |-> "600001"]

OrderRequest(items) ==
    [items |-> items, customer |-> ValidCustomer, shippingAddress |-> ValidAddress]

\* String.prototype.trim, toLowerCase and replace(/\s/g, "") on the strings of the model
trim(str) ==
    CASE str = " Asha " -> "Asha"
      [] str = "Asha@Example.com " -> "Asha@Example.com"
      [] str = " 12 Temple Street" -> "12 Temple Street"
      [] str = "Chennai " -> "Chennai"
      [] str = " TN" -> "TN"
      [] str = "600001 " -> "600001"
      [] str = " Wedding order " -> "Wedding order"
      [] str = " Please call me " -> "Please call me"
      [] str = "asha@example.com " -> "asha@example.com"
      [] OTHER -> str
toLowerCase(str) ==
    CASE str = "Asha@Example.com" -> "asha@example.com"
      [] str = "Asha@Example.com " -> "asha@example.com "
      [] OTHER -> str
removeSpaces(str) == IF str = "98765 43210" THEN "9876543210" ELSE str

\* the customer and shippingAddress objects createOrder stores
customerOf(req) ==
    [name |-> trim(req.customer.name),
     email |-> toLowerCase(trim(req.customer.email)),
     phone |-> removeSpaces(req.customer.phone)]
shippingAddressOf(req) ==
    [address |-> trim(req.shippingAddress.address),
     city |-> trim(req.shippingAddress.city),
     state |-> trim(req.shippingAddress.state),
     pincode |-> trim(req.shippingAddress.pincode),
     country |-> "India"]

\* a document that would store a total without the tax
orderDocumentTotalWithoutGst(req, verifiedItems, subtotal, shipping, gst, totalAmount, rzpOrderId) ==
    [customer |-> [name |-> trim(req.customer.name),
                   email |-> toLowerCase(trim(req.customer.email)),
                   phone |-> removeSpaces(req.customer.phone)],
     shippingAddress |-> [address |-> trim(req.shippingAddress.address),
                          city |-> trim(req.shippingAddress.city),
                          state |-> trim(req.shippingAddress.state),
                          pincode |-> trim(req.shippingAddress.pincode),
                          country |-> "India"],
     items |-> verifiedItems,
     itemCount |-> itemCountOf(verifiedItems),
     subtotal |-> subtotal,
     shipping |-> shipping,
     gst |-> gst,
     totalAmount |-> subtotal + shipping,
     razorpayOrderId |-> rzpOrderId,
     paymentMethod |-> "razorpay",
     status |-> "pending",
     razorpayPaymentId |-> None,
     razorpaySignature |-> None]

\* the document createOrder adds to the orders collection
orderDocument(req, verifiedItems, subtotal, shipping, gst, totalAmount, rzpOrderId) ==
    [customer |-> customerOf(req),
     shippingAddress |-> shippingAddressOf(req),
     items |-> verifiedItems,
     itemCount |-> itemCountOf(verifiedItems),
     subtotal |-> subtotal,
     shipping |-> shipping,
     gst |-> gst,
     totalAmount |-> totalAmount,
     razorpayOrderId |-> rzpOrderId,
     paymentMethod |-> "razorpay",
     status |-> "pending",
     razorpayPaymentId |-> None,
     razorpaySignature |-> None]

\* the catalog prices of a snapshot of the products collection
PricesOf(snap) == [p \in DOMAIN snap |-> snap[p].price]

\* the number of settlement batches committed so far
RECURSIVE CommitCount(_)
CommitCount(s) == IF s = << >> THEN 0 ELSE Len(Head(s)) + CommitCount(Tail(s))

(***************************************************************************)
(* createOrder (cloud function), one action per stretch between awaits.    *)
(***************************************************************************)
\* the checks of createOrder over the documents getAll returned: the 400 response they
\* end in, or none
createOrderChecks(req, productsSnap) ==
    LET invalid == validateOrderRequest(req)
        priced == verifyItems(req.items, productsSnap, 1, 0, << >>)
    IN  IF invalid # << >>
        THEN Some(Response("createOrder", 400, invalid, None))
        ELSE IF priced.error # << >>
        THEN Some(Response("createOrder", 400, priced.error, None))
        ELSE None

\* request received: validation, db.getAll of the products, the pricing loop
createOrderReceive(req) ==
    /\ co.pc = "idle"
    /\ LET rejected == createOrderChecks(req, products)
           priced == verifyItems(req.items, products, 1, 0, << >>)
       IN  IF rejected # None
           THEN /\ last' = Val(rejected)
                /\ co' = co
           ELSE /\ co' = [pc |-> "priced", req |-> req, productsSnap |-> products,
                          subtotal |-> priced.subtotal,
                          verifiedItems |-> priced.verifiedItems]
                /\ last' = last
    /\ UNCHANGED << products, settings, orders, gatewayOrders, vp, checkout, audit, settled, contactMessages, sc, outbox,
                    adminVars, newsletterVars, cartVars >>

\* settings read, totals, and the gateway's orders.create, which may fail
createOrderGateway(gatewayOk) ==
    /\ co.pc = "priced"
    /\ LET shipping == shippingFor(co.subtotal, settings)
           gst == gstFor(co.subtotal, settings)
           totalAmount == co.subtotal + shipping + gst
       IN  IF gatewayOk
           THEN /\ gatewayOrders' = Append(gatewayOrders, totalAmount * PaisePerRupee)
                /\ co' = [pc |-> "created", req |-> co.req, productsSnap |-> co.productsSnap,
                          subtotal |-> co.subtotal, verifiedItems |-> co.verifiedItems,
                          settingsDoc |-> settings, shipping |-> shipping, gst |-> gst,
                          totalAmount |-> totalAmount,
                          rzpOrderId |-> Len(gatewayOrders) + 1]
                /\ last' = last
           ELSE /\ gatewayOrders' = gatewayOrders
                /\ co' = Idle
                /\ last' = Response("createOrder", 500,
                                    << "Failed to create order. Please try again." >>, None)
    /\ UNCHANGED << products, settings, orders, vp, checkout, audit, settled, contactMessages, sc, outbox,
                    adminVars, newsletterVars, cartVars >>

\* orders.add, which may fail, and the response
createOrderPersist(addOk) ==
    /\ co.pc = "created"
    /\ IF addOk
       THEN /\ orders' = Append(orders,
                            orderDocument(co.req, co.verifiedItems, co.subtotal, co.shipping, co.gst,
                                          co.totalAmount, Some(co.rzpOrderId)))
            /\ audit' = Append(audit, [via |-> "createOrder", cart |-> co.req.items,
                                       prices |-> PricesOf(co.productsSnap),
                                       settingsDoc |-> co.settingsDoc])
            /\ settled' = Append(settled, << >>)
            /\ last' = Response("createOrder", 200, << >>,
                                Some([orderId |-> Len(orders) + 1,
                                      razorpayOrderId |-> co.rzpOrderId,
                                      amount |-> co.totalAmount,
                                      currency |-> "INR"]))
       ELSE /\ UNCHANGED << orders, audit, settled >>
            /\ last' = Response("createOrder", 500,
                                << "Failed to create order. Please try again." >>, None)
    /\ co' = Idle
    /\ UNCHANGED << products, settings, gatewayOrders, vp, checkout, contactMessages, sc, outbox,
                    adminVars, newsletterVars, cartVars >>

(***************************************************************************)
(* verifyPayment (cloud function).                                         *)
(***************************************************************************)
\* !orderId || !razorpayOrderId || !razorpayPaymentId || !razorpaySignature
missingVerifyField(req) ==
    \/ req.orderId = None
    \/ req.razorpayOrderId = None
    \/ req.razorpayPaymentId = None
    \/ req.razorpaySignature = None

\* the signature recomputed with the server's key
expectedSignature(req) ==
    Hmac(KeySecret, Val(req.razorpayOrderId), Val(req.razorpayPaymentId))

\* a comparison that would look at the signed references only, not at the key
signatureOfAnyKey(req) ==
    /\ Val(req.razorpaySignature)[3] = Val(req.razorpayOrderId)
    /\ Val(req.razorpaySignature)[4] = Val(req.razorpayPaymentId)

\* expectedSignature !== razorpaySignature, negated
signatureMatches(req) == expectedSignature(req) = Val(req.razorpaySignature)

\* FieldValue.increment(n) on a numeric field; a missing field counts as 0
increment(field, n) == Some((IF field = None THEN 0 ELSE Val(field)) + n)

\* the stock updates of the batch, one per line item
RECURSIVE decrementStock(_, _)
decrementStock(prods, items) ==
    IF items = << >>
    THEN prods
    ELSE decrementStock(
             [prods EXCEPT ![Head(items).productId].stock = increment(@, -Head(items).quantity)],
             Tail(items))

\* an order update that would write the document anew, without its line items
markPaidDroppingItems(order, req) ==
    [order EXCEPT !.status = "paid",
                  !.razorpayPaymentId = req.razorpayPaymentId,
                  !.razorpayOrderId = req.razorpayOrderId,
                  !.razorpaySignature = req.razorpaySignature,
                  !.items = << >>,
                  !.itemCount = 0]

\* the order update of the batch
markPaid(order, req) ==
    [order EXCEPT !.status = "paid",
                  !.razorpayPaymentId = req.razorpayPaymentId,
                  !.razorpayOrderId = req.razorpayOrderId,
                  !.razorpaySignature = req.razorpaySignature]

\* batch.update needs its document to exist
batchCanCommit(items) == \A k \in 1..Len(items) : items[k].productId \in DOMAIN products

\* a batch that would skip the stock updates of an order it read as paid
decrementUnlessPaid(prods, orderData) ==
    IF orderData.status = "paid" THEN prods ELSE decrementStock(prods, orderData.items)

\* a batch that would leave the order document out
orderLeftOut(order, req) == order

\* what batch.commit() writes: the stock updates and the order update, together
committedProducts(prods, orderData) == decrementStock(prods, orderData.items)
committedOrder(order, req) == markPaid(order, req)

\* checks that would go from the field check straight to the order lookup
verifyPaymentChecksUnsigned(req, orderDocs) ==
    IF missingVerifyField(req)
    THEN Some([fn |-> "verifyPayment", status |-> 400,
               error |-> << "Missing payment verification data" >>, body |-> None])
    ELSE IF Val(req.orderId) \notin 1..Len(orderDocs)
    THEN Some([fn |-> "verifyPayment", status |-> 404,
               error |-> << "Order not found" >>, body |-> None])
    ELSE None

\* checks that would look the order up before they compare the signature
verifyPaymentChecksLookupFirst(req, orderDocs) ==
    IF missingVerifyField(req)
    THEN Some([fn |-> "verifyPayment", status |-> 400,
               error |-> << "Missing payment verification data" >>, body |-> None])
    ELSE IF Val(req.orderId) \notin 1..Len(orderDocs)
    THEN Some([fn |-> "verifyPayment", status |-> 404,
               error |-> << "Order not found" >>, body |-> None])
    ELSE IF ~signatureMatches(req)
    THEN Some([fn |-> "verifyPayment", status |-> 400,
               error |-> << "Payment verification failed" >>, body |-> None])
    ELSE None

\* the checks of verifyPayment before its batch, over the collection orderRef.get()
\* reads: the response they end in, or none
verifyPaymentChecks(req, orderDocs) ==
    IF missingVerifyField(req)
    THEN Some(Response("verifyPayment", 400, << "Missing payment verification data" >>, None))
    ELSE IF ~signatureMatches(req)
    THEN Some(Response("verifyPayment", 400, << "Payment verification failed" >>, None))
    ELSE IF Val(req.orderId) \notin 1..Len(orderDocs)
    THEN Some(Response("verifyPayment", 404, << "Order not found" >>, None))
    ELSE None

\* request received: field check, signature check, orderRef.get(); a request takes the
\* free slot of lowest number
verifyPaymentReceive(i, req) ==
    /\ vp[i].pc = "idle"
    /\ \A j \in 1..(i - 1) : vp[j].pc # "idle"
    /\ IF verifyPaymentChecks(req, orders) # None
       THEN /\ last' = Val(verifyPaymentChecks(req, orders))
            /\ vp' = vp
       ELSE /\ vp' = [vp EXCEPT ![i] = [pc |-> "read", req |-> req,
                                        orderData |-> [items |-> orders[Val(req.orderId)].items,
                                                      status |-> orders[Val(req.orderId)].status]]]
            /\ last' = last
    /\ UNCHANGED << products, settings, orders, gatewayOrders, co, checkout, audit, settled, contactMessages, sc, outbox,
                    adminVars, newsletterVars, cartVars >>

\* batch.commit(), which may fail, and the response
verifyPaymentCommit(i, commitOk) ==
    /\ vp[i].pc = "read"
    /\ LET req == vp[i].req
           id == Val(vp[i].req.orderId)
           items == vp[i].orderData.items
       IN  IF commitOk /\ batchCanCommit(items)
           THEN /\ CommitCount(settled) < MaxCommits
                /\ products' = committedProducts(products, vp[i].orderData)
                /\ orders' = [orders EXCEPT ![id] = committedOrder(@, req)]
                /\ settled' = [settled EXCEPT ![id] = Append(@, vp[i].orderData.status)]
                /\ last' = Response("verifyPayment", 200, << >>,
                                    Some([success |-> TRUE, orderId |-> id]))
           ELSE /\ UNCHANGED << products, orders, settled >>
                /\ last' = Response("verifyPayment", 500,
                                    << "Payment verification failed. Please contact support." >>,
                                    None)
    /\ vp' = [vp EXCEPT ![i] = Idle]
    /\ UNCHANGED << settings, gatewayOrders, co, checkout, audit, contactMessages, sc, outbox,
                    adminVars, newsletterVars, cartVars >>

(***************************************************************************)
(* Security rules of the document store, as the deployment guide states    *)
(* them: orders may be created by anyone and read or updated by an         *)
(* administrator only; products and settings are written by administrators.*)
(***************************************************************************)
isAdminEmail(email) == email \in AllowedEmails

rulesAllow(collection, op, user) ==
    IF collection = "orders" /\ op = "create" THEN TRUE ELSE isAdminEmail(user)

(***************************************************************************)
(* Browser checkout (PremamCheckout, PremamCart totals, PremamDB writes).  *)
(***************************************************************************)
\* PremamCart.getSubtotal / getShipping / getGST / getTotal, over the cart the browser holds
getSubtotal(cartItems) ==
    SumSeq([k \in 1..Len(cartItems) |-> cartItems[k].price * cartItems[k].quantity])
getShipping(cartItems) ==
    IF getSubtotal(cartItems) >= AppFreeShippingThreshold THEN 0 ELSE AppShippingCost
getGST(cartItems) == MathRound(getSubtotal(cartItems) * AppGst, 100)
getCount(cartItems) == SumSeq([k \in 1..Len(cartItems) |-> cartItems[k].quantity])
getTotal(cartItems) ==
    [subtotal |-> getSubtotal(cartItems),
     shipping |-> getShipping(cartItems),
     gst |-> getGST(cartItems),
     total |-> getSubtotal(cartItems) + getShipping(cartItems) + getGST(cartItems),
     freeShipping |-> getShipping(cartItems) = 0]

\* buildOrderData over a valid checkout form, then PremamDB.createOrder's
\* { ...orderData, status: 'pending' }
buildOrderData(cartItems) ==
    [customer |-> customerOf(OrderRequest(cartItems)),
     shippingAddress |-> shippingAddressOf(OrderRequest(cartItems)),
     items |-> [k \in 1..Len(cartItems) |->
                    [productId |-> cartItems[k].id,
                     price |-> cartItems[k].price,
                     quantity |-> cartItems[k].quantity]],
     itemCount |-> getCount(cartItems),
     subtotal |-> getSubtotal(cartItems),
     shipping |-> getShipping(cartItems),
     gst |-> getGST(cartItems),
     totalAmount |-> getSubtotal(cartItems) + getShipping(cartItems) + getGST(cartItems),
     razorpayOrderId |-> None,
     paymentMethod |-> "razorpay",
     status |-> "pending",
     razorpayPaymentId |-> None,
     razorpaySignature |-> None]

\* updateOrderPayment's { ...paymentData, status: 'paid' }
updateOrderPayment(order, paymentData) ==
    [order EXCEPT !.status = "paid",
                  !.razorpayPaymentId = paymentData.razorpayPaymentId,
                  !.razorpayOrderId = paymentData.razorpayOrderId,
                  !.razorpaySignature = paymentData.razorpaySignature]

\* processPayment: form and cart checks, the order written by the browser, the widget opened
processPayment(user, formValid, cartItems, addOk) ==
    /\ checkout.pc = "idle"
    /\ Len(orders) < MaxOrders
    /\ IF ~formValid
       THEN /\ last' = Response("processPayment", 0, << "Please fix the errors above" >>, None)
            /\ UNCHANGED << orders, audit, settled, checkout >>
       ELSE IF getCount(cartItems) = 0
       THEN /\ last' = Response("processPayment", 0, << "Your cart is empty!" >>, None)
            /\ UNCHANGED << orders, audit, settled, checkout >>
       ELSE IF addOk /\ rulesAllow("orders", "create", user)
       THEN /\ orders' = Append(orders, buildOrderData(cartItems))
            /\ audit' = Append(audit, [via |-> "browser", cart |-> cartItems,
                                       prices |-> PricesOf(products),
                                       settingsDoc |-> settings])
            /\ settled' = Append(settled, << >>)
            /\ checkout' = [pc |-> "widget", user |-> user, orderId |-> Some(Len(orders) + 1),
                            orderData |-> buildOrderData(cartItems)]
            /\ last' = Response("processPayment", 0, << >>, Some([orderId |-> Len(orders) + 1]))
       ELSE /\ UNCHANGED << orders, audit, settled >>
            /\ checkout' = [pc |-> "widget", user |-> user, orderId |-> None,
                            orderData |-> buildOrderData(cartItems)]
            /\ last' = Response("processPayment", 0, << >>, None)
    /\ UNCHANGED << products, settings, gatewayOrders, co, vp, contactMessages, sc, outbox,
                    adminVars, newsletterVars, cartVars >>

\* the widget's success handler: handlePaymentSuccess, with the response the widget hands over
handlePaymentSuccess(paymentId) ==
    /\ checkout.pc = "widget"
    /\ LET paymentData == [razorpayPaymentId |-> Some(paymentId),
                           razorpayOrderId |-> None,
                           razorpaySignature |-> None]
       IN  IF checkout.orderId # None /\ rulesAllow("orders", "update", checkout.user)
           THEN orders' = [orders EXCEPT ![Val(checkout.orderId)] =
                                             updateOrderPayment(@, paymentData)]
           ELSE orders' = orders
    /\ last' = Response("handlePaymentSuccess", 0, << >>, None)
    /\ checkout' = Idle
    /\ UNCHANGED << products, settings, gatewayOrders, co, vp, audit, settled, contactMessages, sc, outbox,
                    adminVars, newsletterVars, cartVars >>

\* the widget dismissed or the payment failed: the pay button is enabled again
paymentDismissed ==
    /\ checkout.pc = "widget"
    /\ checkout' = Idle
    /\ last' = Response("paymentDismissed", 0, << >>, None)
    /\ UNCHANGED << products, settings, orders, gatewayOrders, co, vp, audit, settled, contactMessages, sc, outbox,
                    adminVars, newsletterVars, cartVars >>

(***************************************************************************)
(* Storefront cart (PremamCart): items in memory and in local storage.     *)
(***************************************************************************)
\* cartItems.find(item => item.id === productId): the position of the item, 0 when absent
findItem(items, productId) ==
    IF \E k \in 1..Len(items) : items[k].id = productId
    THEN CHOOSE k \in 1..Len(items) :
             /\ items[k].id = productId
             /\ \A j \in 1..(k - 1) : items[j].id # productId
    ELSE 0

\* an add that would push a new item whether or not the product is in the cart
cartAfterAddAlwaysPush(items, product, quantity) ==
    Append(items, [id |-> product.id, price |-> product.price, quantity |-> quantity])

\* add: the quantity of the existing item grows, or a new item is pushed
cartAfterAdd(items, product, quantity) ==
    IF findItem(items, product.id) # 0
    THEN [items EXCEPT ![findItem(items, product.id)].quantity = @ + quantity]
    ELSE Append(items, [id |-> product.id, price |-> product.price, quantity |-> quantity])

\* cartItems.splice(index, 1)
cartAfterRemove(items, productId) ==
    LET index == findItem(items, productId)
    IN  SubSeq(items, 1, index - 1) \o SubSeq(items, index + 1, Len(items))

\* JSON.stringify({ items, expiry, updatedAt }) and, in loadCart, JSON.parse(stored).items
stringifyCart(items) == << "json", [items |-> items] >>
loadCart(stored) == IF stored = None THEN << >> ELSE Val(stored)[2].items

\* saveCart: localStorage.setItem inside try/catch; saveOk is whether setItem succeeds
saveCart(items, stored, saveOk) == IF saveOk THEN Some(stringifyCart(items)) ELSE stored

\* PremamCart.add(product, quantity)
add(product, quantity, saveOk) ==
    /\ product.id # ""
    /\ findItem(premamCart, product.id) # 0 =>
           premamCart[findItem(premamCart, product.id)].quantity + quantity <= MaxQuantity
    /\ premamCart' = cartAfterAdd(premamCart, product, quantity)
    /\ localStorage' = saveCart(premamCart', localStorage, saveOk)
    /\ last' = Response("add", 0, << >>, None)
    /\ UNCHANGED << products, settings, orders, gatewayOrders, co, vp, checkout, audit, settled,
                    contactMessages, sc, outbox, adminVars, newsletterVars >>

\* PremamCart.add(product) without an id: the call returns at once
addWithoutId(product) ==
    /\ product.id = ""
    /\ last' = Response("add", 0, << "Invalid product: must have an id" >>, None)
    /\ UNCHANGED << products, settings, orders, gatewayOrders, co, vp, checkout, audit, settled,
                    contactMessages, sc, outbox, adminVars, newsletterVars, cartVars >>

\* PremamCart.remove(productId); nothing happens for a product that is not in the cart
remove(productId, saveOk) ==
    /\ findItem(premamCart, productId) # 0
    /\ premamCart' = cartAfterRemove(premamCart, productId)
    /\ localStorage' = saveCart(premamCart', localStorage, saveOk)
    /\ last' = Response("remove", 0, << >>, None)
    /\ UNCHANGED << products, settings, orders, gatewayOrders, co, vp, checkout, audit, settled,
                    contactMessages, sc, outbox, adminVars, newsletterVars >>

\* PremamCart.updateQty(productId, quantity): remove for a quantity of 0 or less
updateQty(productId, quantity, saveOk) ==
    /\ findItem(premamCart, productId) # 0
    /\ premamCart' = IF quantity <= 0
                     THEN cartAfterRemove(premamCart, productId)
                     ELSE [premamCart EXCEPT ![findItem(premamCart, productId)].quantity =
                                                 quantity]
    /\ localStorage' = saveCart(premamCart', localStorage, saveOk)
    /\ last' = Response("updateQty", 0, << >>, None)
    /\ UNCHANGED << products, settings, orders, gatewayOrders, co, vp, checkout, audit, settled,
                    contactMessages, sc, outbox, adminVars, newsletterVars >>

\* PremamCart.clear()
clear(saveOk) ==
    /\ premamCart' = << >>
    /\ localStorage' = saveCart(premamCart', localStorage, saveOk)
    /\ last' = Response("clear", 0, << >>, None)
    /\ UNCHANGED << products, settings, orders, gatewayOrders, co, vp, checkout, audit, settled,
                    contactMessages, sc, outbox, adminVars, newsletterVars >>

(***************************************************************************)
(* Administrator dashboard writes.                                         *)
(***************************************************************************)
\* updateOrderStatus: the status select of the orders table
updateOrderStatus(orderId, newStatus) ==
    /\ orderId \in 1..Len(orders)
    /\ orders[orderId].status # newStatus
    /\ orders' = [orders EXCEPT ![orderId].status = newStatus]
    /\ last' = Response("updateOrderStatus", 0, << >>, None)
    /\ UNCHANGED << products, settings, gatewayOrders, co, vp, checkout, audit, settled, contactMessages, sc, outbox,
                    adminVars, newsletterVars, cartVars >>

\* saveProduct on an existing product whose price the administrator edits: the form
\* resubmits the stock it was filled with (product.stock ?? 10)
saveProduct(id, price) ==
    /\ id \in DOMAIN products
    /\ products[id].price # price
    /\ products' = [products EXCEPT ![id] =
                        [price |-> price,
                         stock |-> Some(IF products[id].stock = None
                                        THEN FormDefaultStock
                                        ELSE Val(products[id].stock))]]
    /\ last' = Response("saveProduct", 0, << >>, None)
    /\ UNCHANGED << settings, orders, gatewayOrders, co, vp, checkout, audit, settled, contactMessages, sc, outbox,
                    adminVars, newsletterVars, cartVars >>

\* the store settings form: set(settings, { merge: true })
saveStoreSettings(threshold, cost, rate) ==
    /\ settings' = Some([freeShippingThreshold |-> threshold, shippingCost |-> cost, gst |-> rate])
    /\ settings' # settings
    /\ last' = Response("saveStoreSettings", 0, << >>, None)
    /\ UNCHANGED << products, orders, gatewayOrders, co, vp, checkout, audit, settled, contactMessages, sc, outbox,
                    adminVars, newsletterVars, cartVars >>

(***************************************************************************)
(* Admin page: sign-in button, logout button, auth state listener.         *)
(***************************************************************************)
\* loadDashboardData reads the orders collection: the rules decide whether it gets data
dashboardLoads(user) == user # None /\ rulesAllow("orders", "read", Val(user))

\* handleAuthSuccess: currentUser = user, showAdmin(), loadDashboardData()
handleAuthSuccess(page, user, signedIn) ==
    [layout |-> "admin", currentUser |-> Some(user), loaded |-> dashboardLoads(signedIn)]

\* showLogin()
showLogin(page) == [page EXCEPT !.layout = "login"]

\* the sign-in button: signInWithGoogle() is called; popupOk is whether the popup signs
\* the account in.  A sign-in changes the auth state, which the listener is told of, and
\* resolves the promise the click handler awaits
signInClicked(user, popupOk) ==
    /\ adminPage.layout = "login"
    /\ signIn = None
    /\ auth = None
    /\ Len(authListener) < MaxAuthEvents
    /\ IF popupOk
       THEN /\ auth' = Some(user)
            /\ authListener' = Append(authListener, Some(user))
            /\ signIn' = Some(user)
            /\ adminPage' = adminPage
       ELSE /\ adminPage' = showLogin(adminPage)
            /\ UNCHANGED << auth, authListener, signIn >>
    /\ last' = Response("signInClicked", 0, << >>, None)
    /\ UNCHANGED << products, settings, orders, gatewayOrders, co, vp, checkout, audit, settled,
                    contactMessages, sc, outbox, newsletterVars, cartVars >>

\* the click handler resumes after its await: handleAuthSuccess(result.user)
signInResolved ==
    /\ signIn # None
    /\ adminPage' = handleAuthSuccess(adminPage, Val(signIn), auth)
    /\ signIn' = None
    /\ last' = Response("signInResolved", 0, << >>, None)
    /\ UNCHANGED << products, settings, orders, gatewayOrders, co, vp, checkout, audit, settled,
                    contactMessages, sc, outbox, auth, authListener, newsletterVars, cartVars >>

\* the onAuthStateChange callback, for the oldest auth state change not yet delivered
authStateChanged ==
    /\ authListener # << >>
    /\ LET user == Head(authListener)
       IN  IF user # None /\ isAdminEmail(Val(user))
           THEN /\ adminPage' = handleAuthSuccess(adminPage, Val(user), auth)
                /\ authListener' = Tail(authListener)
                /\ auth' = auth
           ELSE IF user # None
           THEN /\ adminPage' = showLogin(adminPage)
                /\ auth' = None
                /\ authListener' = IF auth = None THEN Tail(authListener)
                                   ELSE Append(Tail(authListener), None)
           ELSE /\ authListener' = Tail(authListener)
                /\ UNCHANGED << adminPage, auth >>
    /\ last' = Response("authStateChanged", 0, << >>, None)
    /\ UNCHANGED << products, settings, orders, gatewayOrders, co, vp, checkout, audit, settled,
                    contactMessages, sc, outbox, signIn, newsletterVars, cartVars >>

\* the logout button of the admin layout: signOut(), currentUser = null, showLogin()
logoutClicked ==
    /\ adminPage.layout = "admin"
    /\ Len(authListener) < MaxAuthEvents
    /\ auth' = None
    /\ authListener' = IF auth = None THEN authListener ELSE Append(authListener, None)
    /\ adminPage' = [showLogin(adminPage) EXCEPT !.currentUser = None]
    /\ last' = Response("logoutClicked", 0, << >>, None)
    /\ UNCHANGED << products, settings, orders, gatewayOrders, co, vp, checkout, audit, settled,
                    contactMessages, sc, outbox, signIn, newsletterVars, cartVars >>

(***************************************************************************)
(* Cloud function submitContact.                                           *)
(***************************************************************************)
\* a contact form post; an absent or empty field is ""
ContactRequest(name, email, phone, subject, message) ==
    [name |-> name, email |-> email, phone |-> phone, subject |-> subject, message |-> message]

\* /^[^\s@]+@[^\s@]+\.[^\s@]+$/.test(email) on the strings of the model
emailPattern(str) == str \in {"asha@example.com", "Asha@Example.com", "ravi@example.com"}

\* the first validation that fails, or None
contactValidationError(req) ==
    IF req.name = "" \/ req.email = "" \/ req.message = ""
    THEN Some("Name, email, and message are required")
    ELSE IF ~emailPattern(req.email)
    THEN Some("Invalid email address")
    ELSE None

\* the document submitContact adds to the contactMessages collection
contactDataOf(req) ==
    [name |-> trim(req.name),
     email |-> toLowerCase(trim(req.email)),
     phone |-> trim(req.phone),
     subject |-> trim(IF req.subject = "" THEN "General Enquiry" ELSE req.subject),
     message |-> trim(req.message),
     read |-> FALSE]

\* the notification mail built from the stored document
notificationMail(contactData) ==
    [replyTo |-> contactData.email,
     subject |-> << "New Contact", contactData.subject, contactData.name >>,
     message |-> contactData.message]

\* a function that would let the mail failure reach the outer catch
contactResponsePropagatingMailFailure(mailOk) ==
    IF mailOk
    THEN Response("submitContact", 200, << >>,
                  Some([success |-> TRUE, message |-> "Message sent successfully"]))
    ELSE Response("submitContact", 500, << "Failed to send message. Please try again." >>, None)

\* the response after the mail attempt: the inner catch only logs the failure
contactResponseAfterMail(mailOk) ==
    Response("submitContact", 200, << >>,
             Some([success |-> TRUE, message |-> "Message sent successfully"]))

\* validation and contactMessages.add; addOk is whether the add succeeds
submitContactReceive(req, addOk) ==
    /\ sc.pc = "idle"
    /\ Len(contactMessages) < MaxMessages
    /\ IF contactValidationError(req) # None
       THEN /\ last' = Response("submitContact", 400, << Val(contactValidationError(req)) >>, None)
            /\ UNCHANGED << contactMessages, sc >>
       ELSE IF addOk
       THEN /\ contactMessages' = Append(contactMessages, contactDataOf(req))
            /\ sc' = [pc |-> "mail", contactData |-> contactDataOf(req)]
            /\ UNCHANGED last
       ELSE /\ last' = Response("submitContact", 500,
                                << "Failed to send message. Please try again." >>, None)
            /\ UNCHANGED << contactMessages, sc >>
    /\ UNCHANGED << products, settings, orders, gatewayOrders, co, vp, checkout, audit, settled,
                    outbox, adminVars, newsletterVars, cartVars >>

\* createTransport and sendMail inside the inner try, then the response; mailOk is whether
\* the transport accepts the mail
submitContactMail(mailOk) ==
    /\ sc.pc = "mail"
    /\ outbox' = IF mailOk THEN Append(outbox, notificationMail(sc.contactData)) ELSE outbox
    /\ last' = contactResponseAfterMail(mailOk)
    /\ sc' = Idle
    /\ UNCHANGED << products, settings, orders, gatewayOrders, co, vp, checkout, audit, settled,
                    contactMessages, adminVars, newsletterVars, cartVars >>

(***************************************************************************)
(* Cloud function subscribeNewsletter.                                     *)
(***************************************************************************)
\* email.trim().toLowerCase()
normalizedEmailOf(email) == toLowerCase(trim(email))

\* where("email", "==", normalizedEmail).limit(1).get(): is the snapshot empty
existingEmpty(docs, normalizedEmail) ==
    \A k \in 1..Len(docs) : docs[k] # normalizedEmail

\* request received: validation, normalisation and the duplicate query; a request takes
\* the free slot of lowest number
subscribeNewsletterReceive(i, email) ==
    /\ sn[i].pc = "idle"
    /\ \A j \in 1..(i - 1) : sn[j].pc # "idle"
    /\ Len(newsletter) + Cardinality({ j \in RequestSlots : sn[j].pc = "checked" })
           < MaxSubscribers
    /\ IF email = "" \/ ~emailPattern(email)
       THEN /\ last' = Response("subscribeNewsletter", 400, << "Valid email is required" >>, None)
            /\ sn' = sn
       ELSE IF ~existingEmpty(newsletter, normalizedEmailOf(email))
       THEN /\ last' = Response("subscribeNewsletter", 200, << >>,
                                Some([success |-> TRUE, message |-> "You're already subscribed!"]))
            /\ sn' = sn
       ELSE /\ sn' = [sn EXCEPT ![i] = [pc |-> "checked",
                                        normalizedEmail |-> normalizedEmailOf(email)]]
            /\ last' = last
    /\ UNCHANGED << products, settings, orders, gatewayOrders, co, vp, checkout, audit, settled,
                    contactMessages, sc, outbox, adminVars, newsletter, cartVars >>

\* newsletter.add, which may fail, and the response
subscribeNewsletterAdd(i, addOk) ==
    /\ sn[i].pc = "checked"
    /\ IF addOk
       THEN /\ newsletter' = Append(newsletter, sn[i].normalizedEmail)
            /\ last' = Response("subscribeNewsletter", 200, << >>,
                                Some([success |-> TRUE, message |-> "Subscribed successfully!"]))
       ELSE /\ newsletter' = newsletter
            /\ last' = Response("subscribeNewsletter", 500,
                                << "Subscription failed. Please try again." >>, None)
    /\ sn' = [sn EXCEPT ![i] = Idle]
    /\ UNCHANGED << products, settings, orders, gatewayOrders, co, vp, checkout, audit, settled,
                    contactMessages, sc, outbox, adminVars, cartVars >>

(***************************************************************************)
(* Inputs of the environment.                                              *)
(***************************************************************************)
\* the carts posted to createOrder while settlements run
SettlementCarts ==
    { << Line("p1", 2, None) >>,
      << Line("p1", 1, Some(1)), Line("p2", 1, None) >> }

\* the carts posted to createOrder: with and without a client price, of one and of two
\* lines, and carts the function rejects (empty, unknown product, more than the stock)
IntakeCarts ==
    { << >>,
      << Line("p1", 2, None) >>,
      << Line("p1", 1, Some(1)) >>,
      << Line("p2", 1, Some(1)) >>,
      << Line("p1", 1, Some(1)), Line("p2", 1, None) >>,
      << Line(MissingId, 1, None) >>,
      << Line("p1", 6, None) >> }

\* more carts: one that asks for all the stock, and carts with a failing line after a good
\* line, after another failing line, and before one
RequestCarts ==
    IntakeCarts \cup
    { << Line("p1", 5, None) >>,
      << Line("p1", 1, None), Line(MissingId, 1, None) >>,
      << Line("p1", 6, None), Line(MissingId, 1, None) >>,
      << Line(MissingId, 1, None), Line("p1", 6, None) >> }

\* a customer and an address as typed, before trim(), toLowerCase() and replace(/\s/g, "")
RawCustomer == [name |-> " Asha ", email |-> "Asha@Example.com ", phone |-> "98765 43210"]
RawAddress == [address |-> " 12 Temple Street", city |-> "Chennai ", state |-> " TN",
               pincode |-> "600001 "]

\* requests for one cart with one of the customer or address fields missing or empty
\* (both are falsy), and the request as typed
FieldRequests ==
    LET good == OrderRequest(<< Line("p1", 2, None) >>)
    IN  { [good EXCEPT !.customer[f] = ""] : f \in {"name", "email", "phone"} }
        \cup { [good EXCEPT !.shippingAddress[f] = ""] :
                   f \in {"address", "city", "state", "pincode"} }
        \cup { [good EXCEPT !.customer = RawCustomer, !.shippingAddress = RawAddress] }

\* the requests posted to createOrder
IntakeRequests == { OrderRequest(items) : items \in RequestCarts } \cup FieldRequests

\* the values an administrator may submit with the store settings form
StoreSettingsForms ==
    { << 25000, 500, 5 >>, << 2000, 50, 12 >>, << 0, 50, 12 >>, << 2000, 0, 12 >>,
      << 2000, 50, 0 >> }

\* the carts a browser holds at checkout: the price is the one the browser stored
BrowserCarts ==
    { << >>,
      << [id |-> "p1", price |-> 1000, quantity |-> 1] >>,
      << [id |-> "p1", price |-> 1, quantity |-> 2] >> }

\* a settlement request as the gateway's widget hands it to an honest client
SignedRequest(o, g, p) ==
    [orderId |-> Some(o), razorpayOrderId |-> Some(g), razorpayPaymentId |-> Some(p),
     razorpaySignature |-> Some(Hmac(KeySecret, g, p))]

\* the requests whose signature the gateway made, for one of the orders it created
SignedRequests ==
    { SignedRequest(o, g, p) : o \in 1..MaxOrders, g \in 1..Len(gatewayOrders), p \in PaymentIds }

\* requests with one field missing, and requests whose signature was made with another
\* key, for another payment or for another gateway order
BadRequests ==
    UNION { { [SignedRequest(1, 1, p) EXCEPT !.orderId = None],
              [SignedRequest(1, 1, p) EXCEPT !.razorpayOrderId = None],
              [SignedRequest(1, 1, p) EXCEPT !.razorpayPaymentId = None],
              [SignedRequest(1, 1, p) EXCEPT !.razorpaySignature = None],
              [SignedRequest(1, 1, p) EXCEPT !.razorpaySignature = Some(Hmac(OtherSecret, 1, p))],
              [SignedRequest(1, 1, p) EXCEPT !.razorpaySignature =
                                                 Some(Hmac(KeySecret, 1, CHOOSE q \in PaymentIds : q # p))],
              [SignedRequest(1, 1, p) EXCEPT !.razorpaySignature = Some(Hmac(KeySecret, 2, p))] }
            : p \in PaymentIds }

SettlementRequests == SignedRequests \cup BadRequests


(***************************************************************************)
(* The system: both cloud functions, the browser checkout, the dashboard.  *)
(***************************************************************************)
\* createOrder requests are taken while fewer than n orders and gateway orders exist
IntakeOpen(n) == Len(orders) < n /\ Len(gatewayOrders) < n

InitProducts ==
    [p \in CatalogIds |-> IF p = "p1" THEN [price |-> 1000, stock |-> Some(5)]
                                      ELSE [price |-> 333, stock |-> None]]

Init ==
    /\ products = InitProducts
    /\ settings = None
    /\ orders = << >>
    /\ gatewayOrders = << >>
    /\ co = Idle
    /\ vp = [i \in RequestSlots |-> Idle]
    /\ checkout = Idle
    /\ last = Response("none", 0, << >>, None)
    /\ audit = << >>
    /\ settled = << >>
    /\ contactMessages = << >>
    /\ sc = Idle
    /\ outbox = << >>
    /\ auth = None
    /\ adminPage = [layout |-> "login", currentUser |-> None, loaded |-> FALSE]
    /\ signIn = None
    /\ authListener = << >>
    /\ newsletter = << >>
    /\ sn = [i \in RequestSlots |-> Idle]
    /\ premamCart = << >>
    /\ localStorage = None

\* the settlement handshake: both cloud functions, settlements running concurrently
Next ==
    \/ \E items \in SettlementCarts :
           IntakeOpen(MaxOrders) /\ createOrderReceive(OrderRequest(items))
    \/ \E gatewayOk \in BOOLEAN : createOrderGateway(gatewayOk)
    \/ \E addOk \in BOOLEAN : createOrderPersist(addOk)
    \/ \E i \in RequestSlots, req \in SettlementRequests : verifyPaymentReceive(i, req)
    \/ \E i \in RequestSlots, commitOk \in BOOLEAN : verifyPaymentCommit(i, commitOk)

Spec == Init /\ [][Next]_vars

\* order intake: createOrder while the administrator edits prices and store settings
NextIntake ==
    \/ \E items \in IntakeCarts :
           IntakeOpen(MaxOrders) /\ createOrderReceive(OrderRequest(items))
    \/ \E gatewayOk \in BOOLEAN : createOrderGateway(gatewayOk)
    \/ \E addOk \in BOOLEAN : createOrderPersist(addOk)
    \/ \E id \in CatalogIds, price \in Prices : saveProduct(id, price)
    \/ \E form \in StoreSettingsForms : saveStoreSettings(form[1], form[2], form[3])

SpecIntake == Init /\ [][NextIntake]_vars

\* order intake over every kind of request, from a catalog whose first product has
\* none, one or five in stock: createOrder alone
StockLevels == {0, 1, 5}

InitRequests ==
    /\ \E n \in StockLevels : products = [InitProducts EXCEPT !["p1"].stock = Some(n)]
    /\ settings = None
    /\ orders = << >>
    /\ gatewayOrders = << >>
    /\ co = Idle
    /\ vp = [i \in RequestSlots |-> Idle]
    /\ checkout = Idle
    /\ last = Response("none", 0, << >>, None)
    /\ audit = << >>
    /\ settled = << >>
    /\ contactMessages = << >>
    /\ sc = Idle
    /\ outbox = << >>
    /\ auth = None
    /\ adminPage = [layout |-> "login", currentUser |-> None, loaded |-> FALSE]
    /\ signIn = None
    /\ authListener = << >>
    /\ newsletter = << >>
    /\ sn = [i \in RequestSlots |-> Idle]
    /\ premamCart = << >>
    /\ localStorage = None

NextRequests ==
    \/ \E req \in IntakeRequests : IntakeOpen(MaxOrders) /\ createOrderReceive(req)
    \/ \E gatewayOk \in BOOLEAN : createOrderGateway(gatewayOk)
    \/ \E addOk \in BOOLEAN : createOrderPersist(addOk)

SpecRequests == InitRequests /\ [][NextRequests]_vars

\* checkout: the browser's own order write and payment handler beside the cloud functions
NextCheckout ==
    \/ \E items \in SettlementCarts :
           IntakeOpen(MaxOrders) /\ createOrderReceive(OrderRequest(items))
    \/ \E gatewayOk \in BOOLEAN : createOrderGateway(gatewayOk)
    \/ \E addOk \in BOOLEAN : createOrderPersist(addOk)
    \/ \E i \in RequestSlots, req \in SettlementRequests : verifyPaymentReceive(i, req)
    \/ \E i \in RequestSlots, commitOk \in BOOLEAN : verifyPaymentCommit(i, commitOk)
    \/ \E user \in Users, formValid \in BOOLEAN, cartItems \in BrowserCarts, addOk \in BOOLEAN :
           processPayment(user, formValid, cartItems, addOk)
    \/ \E paymentId \in PaymentIds : handlePaymentSuccess(paymentId)
    \/ paymentDismissed

SpecCheckout == Init /\ [][NextCheckout]_vars

\* the order status: the cloud functions beside the status select of the dashboard
NextStatus ==
    \/ \E items \in SettlementCarts :
           IntakeOpen(MaxOrders) /\ createOrderReceive(OrderRequest(items))
    \/ \E gatewayOk \in BOOLEAN : createOrderGateway(gatewayOk)
    \/ \E addOk \in BOOLEAN : createOrderPersist(addOk)
    \/ \E i \in RequestSlots, req \in SignedRequests : verifyPaymentReceive(i, req)
    \/ \E i \in RequestSlots, commitOk \in BOOLEAN : verifyPaymentCommit(i, commitOk)
    \/ \E orderId \in 1..MaxOrders, newStatus \in StatusValues :
           updateOrderStatus(orderId, newStatus)

SpecStatus == Init /\ [][NextStatus]_vars

\* the cart of the orders of the ledger: one line of each product
LedgerCarts == { << Line("p1", 1, Some(1)), Line("p2", 1, None) >> }

\* settlement requests for the orders of the ledger, each with its own gateway order
LedgerRequests == { SignedRequest(o, o, "pay_1") : o \in 1..MaxLedgerOrders }

\* the order ledger: orders created one beside the other and settled while the
\* administrator edits prices
NextLedger ==
    \/ \E items \in LedgerCarts :
           IntakeOpen(MaxLedgerOrders) /\ createOrderReceive(OrderRequest(items))
    \/ createOrderGateway(TRUE)
    \/ createOrderPersist(TRUE)
    \/ \E req \in LedgerRequests : verifyPaymentReceive(1, req)
    \/ verifyPaymentCommit(1, TRUE)
    \/ \E id \in CatalogIds, price \in Prices : saveProduct(id, price)

SpecLedger == Init /\ [][NextLedger]_vars

\* the contact form: posts that fail a validation, posts as typed, and complete posts
ContactRequests ==
    { ContactRequest("Asha", "asha@example.com", "9876543210", "Wedding order", "Please call me"),
      ContactRequest(" Asha ", "Asha@Example.com", "", "", " Please call me "),
      ContactRequest("Asha", "asha@example.com", "", " Wedding order ", "Please call me"),
      ContactRequest("", "asha@example.com", "", "", "Please call me"),
      ContactRequest("Asha", "", "", "", "Please call me"),
      ContactRequest("Asha", "asha@example.com", "", "", ""),
      ContactRequest("Asha", "asha@example.com ", "", "", "Please call me"),
      ContactRequest("Asha", "asha.example.com", "", "", "Please call me") }

NextContact ==
    \/ \E req \in ContactRequests, addOk \in BOOLEAN : submitContactReceive(req, addOk)
    \/ \E mailOk \in BOOLEAN : submitContactMail(mailOk)

SpecContact == Init /\ [][NextContact]_vars

\* stock keeping over two orders: carts that together ask for more than the stock, a cart
\* that names one product on two lines, carts with a quantity of zero and below, and
\* settlement requests the gateway signed for either of its orders
StockCarts ==
    { << Line("p1", 3, None) >>,
      << Line("p1", 3, None), Line("p1", 3, None) >>,
      << Line("p1", 2, None), Line("p2", -1, None) >>,
      << Line("p1", 0, None) >> }

CrossRequests ==
    { SignedRequest(o, g, "pay_1") : o \in 1..MaxLedgerOrders, g \in 1..Len(gatewayOrders) }

NextStock ==
    \/ \E items \in StockCarts :
           IntakeOpen(MaxLedgerOrders) /\ createOrderReceive(OrderRequest(items))
    \/ createOrderGateway(TRUE)
    \/ createOrderPersist(TRUE)
    \/ \E req \in CrossRequests : verifyPaymentReceive(1, req)
    \/ verifyPaymentCommit(1, TRUE)

SpecStock == Init /\ [][NextStock]_vars

\* the newsletter form: one address as typed in two ways, another address, and posts
\* that fail the validation
NewsletterEmails ==
    { "asha@example.com", "Asha@Example.com", "ravi@example.com", "asha.example.com", "" }

NextNewsletter ==
    \/ \E i \in RequestSlots, email \in NewsletterEmails : subscribeNewsletterReceive(i, email)
    \/ \E i \in RequestSlots, addOk \in BOOLEAN : subscribeNewsletterAdd(i, addOk)

SpecNewsletter == Init /\ [][NextNewsletter]_vars

\* the admin page: accounts that sign in with Google, on and off the allow list
GoogleAccounts == (Users \ {""}) \cup {"visitor@example.com"}

NextAdmin ==
    \/ \E user \in GoogleAccounts, popupOk \in BOOLEAN : signInClicked(user, popupOk)
    \/ signInResolved
    \/ authStateChanged
    \/ logoutClicked

SpecAdmin == Init /\ [][NextAdmin]_vars

\* the storefront cart: the products of the page's cards, one card without an id; the
\* sidebar's plus and minus buttons ask for one more or one less than an item has, the
\* add buttons for the default quantity or a chosen one
CartProducts ==
    { [id |-> "p1", price |-> 1000], [id |-> "p2", price |-> 333], [id |-> "", price |-> 333] }
AddQuantities == 1..2
UpdateQuantities == (-1)..MaxQuantity

NextCart ==
    \/ \E product \in CartProducts, quantity \in AddQuantities, saveOk \in BOOLEAN :
           add(product, quantity, saveOk)
    \/ \E product \in CartProducts : addWithoutId(product)
    \/ \E productId \in CatalogIds, saveOk \in BOOLEAN : remove(productId, saveOk)
    \/ \E productId \in CatalogIds, quantity \in UpdateQuantities, saveOk \in BOOLEAN :
           updateQty(productId, quantity, saveOk)
    \/ \E saveOk \in BOOLEAN : clear(saveOk)

SpecCart == Init /\ [][NextCart]_vars

(***************************************************************************)
(* Measures over the collections and the histories.                        *)
(***************************************************************************)
\* a product's stock as a number: a missing field counts as 0, as increment takes it
StockNum(prods, p) == IF prods[p].stock = None THEN 0 ELSE Val(prods[p].stock)

\* the quantity of product p that a list of line items orders
QtyOf(items, p) ==
    SumSeq([k \in 1..Len(items) |-> IF items[k].productId = p THEN items[k].quantity ELSE 0])

\* the subtotal of line items at the prices of a catalog snapshot
CatalogSubtotal(items, prices) ==
    SumSeq([k \in 1..Len(items) |-> prices[items[k].productId] * items[k].quantity])

\* the orders the createOrder function added
CreatedByFunction == { o \in 1..Len(orders) : audit[o].via = "createOrder" }

\* a request that carries the signature the gateway's key gives its two references
ValidlySigned(req) ==
    /\ ~missingVerifyField(req)
    /\ Val(req.razorpaySignature) =
           Hmac(KeySecret, Val(req.razorpayOrderId), Val(req.razorpayPaymentId))

\* the requests with all four fields whose signature is not the expected one
BadSignatureRequests == { req \in BadRequests : ~missingVerifyField(req) /\ ~ValidlySigned(req) }

\* the settings an administrator configured for an order, the defaults when there are none
ConfiguredThreshold(settingsDoc) ==
    IF settingsDoc = None THEN DefaultFreeShippingThreshold
    ELSE Val(settingsDoc).freeShippingThreshold
ConfiguredShippingCost(settingsDoc) ==
    IF settingsDoc = None THEN DefaultShippingCost ELSE Val(settingsDoc).shippingCost
ConfiguredGstRate(settingsDoc) ==
    IF settingsDoc = None THEN DefaultGstRate ELSE Val(settingsDoc).gst

(***************************************************************************)
(* Properties.                                                             *)
(***************************************************************************)
\* C1: every order createOrder persisted has, line by line, the product and quantity of
\* the posted cart at the catalog price read during the call, a subtotal that is the sum
\* of catalog price times quantity, and a total computed from that subtotal; the price a
\* client posted with a line appears nowhere.
SubtotalFromCatalogPrices ==
    \A o \in CreatedByFunction :
        LET cart == audit[o].cart
            prices == audit[o].prices
        IN  /\ Len(orders[o].items) = Len(cart)
            /\ \A k \in 1..Len(cart) :
                   /\ orders[o].items[k].productId = cart[k].productId
                   /\ orders[o].items[k].quantity = cart[k].quantity
                   /\ orders[o].items[k].price = prices[cart[k].productId]
            /\ orders[o].subtotal = CatalogSubtotal(cart, prices)
            /\ orders[o].totalAmount =
                   totalFor(CatalogSubtotal(cart, prices), audit[o].settingsDoc)

\* an order was persisted for a cart whose line carried a client price other than the
\* catalog's
ClientPriceDiffers ==
    \E o \in CreatedByFunction : \E k \in 1..Len(audit[o].cart) :
        /\ audit[o].cart[k].price # None
        /\ Val(audit[o].cart[k].price) # audit[o].prices[audit[o].cart[k].productId]

\* C2: a verifyPayment request whose signature is not the HMAC of its two references
\* under the server's key is answered 400, and the orders, the products and the requests
\* in flight are the same after it, whether or not the order it names exists.
SignatureMismatchChangesNothing ==
    [][\A i \in RequestSlots, req \in BadSignatureRequests :
           verifyPaymentReceive(i, req) =>
               /\ last'.fn = "verifyPayment"
               /\ last'.status = 400
               /\ orders' = orders
               /\ products' = products
               /\ vp' = vp]_vars

\* a mismatching signature was rejected while the order it named existed, still pending
MismatchRejectedForExistingOrder ==
    /\ last.fn = "verifyPayment"
    /\ last.status = 400
    /\ last.error = << "Payment verification failed" >>
    /\ Len(orders) >= 1
    /\ orders[1].status = "pending"
    /\ products = InitProducts

\* C3: a step of the order and payment functions changes a product's stock only when it
\* is the commit of a verifyPayment request that carries a valid signature and is answered
\* 200; createOrder and every failing outcome of verifyPayment leave the stock as it was.
StockChangesOnlyOnVerifiedSettlement ==
    [][products' # products =>
           \E i \in RequestSlots :
               /\ vp[i].pc = "read"
               /\ vp'[i].pc = "idle"
               /\ ValidlySigned(vp[i].req)
               /\ last'.fn = "verifyPayment"
               /\ last'.status = 200]_vars

\* a verified settlement has committed and the stock is no longer the initial one
StockReducedBySettlement ==
    /\ last.fn = "verifyPayment"
    /\ last.status = 200
    /\ \E p \in CatalogIds : StockNum(products, p) < StockNum(InitProducts, p)

\* C4: after verifyPayment calls made one after the other for an order (each call after
\* the first reading the order as already paid), the stock of each product has gone down
\* by the quantity ordered of it once for every settled order, never twice.
StockDecrementedOncePerOrder ==
    (\A o \in 1..Len(orders) : \A k \in 2..Len(settled[o]) : settled[o][k] = "paid") =>
        \A p \in CatalogIds :
            StockNum(products, p) =
                StockNum(InitProducts, p)
                - SumSeq([o \in 1..Len(orders) |->
                             IF settled[o] = << >> THEN 0 ELSE QtyOf(orders[o].items, p)])

\* C5: every committed settlement took the ordered quantities off the stock, whatever
\* status it had read, and no validly signed request for an existing order is turned away
\* by the checks, whatever the order's status and whatever else is in flight; so two
\* calls that both read the order as pending can both commit.
EverySettlementDecrements ==
    /\ \A p \in CatalogIds :
           StockNum(products, p) =
               StockNum(InitProducts, p)
               - SumSeq([o \in 1..Len(orders) |-> Len(settled[o]) * QtyOf(orders[o].items, p)])
    /\ \A req \in SignedRequests :
           Val(req.orderId) \in 1..Len(orders) => verifyPaymentChecks(req, orders) = None

\* two settlements of one order both read it as pending and both committed: the stock of
\* each of its products is down by twice the ordered quantity
ConcurrentDoubleDecrement ==
    \E o \in 1..Len(orders) :
        /\ settled[o] = << "pending", "pending" >>
        /\ \A k \in 1..Len(orders[o].items) :
               StockNum(products, orders[o].items[k].productId) =
                   StockNum(InitProducts, orders[o].items[k].productId)
                   - 2 * QtyOf(orders[o].items, orders[o].items[k].productId)

\* C6: a step either leaves every product and every existing order as it was, or it is
\* the commit of a settlement answered 200 that marks the order paid with the request's
\* payment reference and takes each line's quantity off its product's stock; a failed
\* commit is of the first kind, and an order is paid exactly when a settlement of it has
\* committed.
SettlementAtomic ==
    /\ [](\A o \in 1..Len(orders) : orders[o].status = "paid" <=> settled[o] # << >>)
    /\ [][\/ /\ products' = products
              /\ \A o \in 1..Len(orders) : orders'[o] = orders[o]
           \/ \E i \in RequestSlots :
                  /\ vp[i].pc = "read"
                  /\ vp'[i].pc = "idle"
                  /\ last'.fn = "verifyPayment"
                  /\ last'.status = 200
                  /\ orders'[Val(vp[i].req.orderId)].status = "paid"
                  /\ orders'[Val(vp[i].req.orderId)].razorpayPaymentId =
                         vp[i].req.razorpayPaymentId
                  /\ \A p \in CatalogIds :
                         StockNum(products', p) =
                             StockNum(products, p) - QtyOf(vp[i].orderData.items, p)]_vars

\* an order of two lines is paid and the stock of both its products is down
TwoLineOrderSettled ==
    \E o \in 1..Len(orders) :
        /\ orders[o].status = "paid"
        /\ Len(orders[o].items) = 2
        /\ \A k \in 1..2 :
               StockNum(products, orders[o].items[k].productId) =
                   StockNum(InitProducts, orders[o].items[k].productId)
                   - orders[o].items[k].quantity

\* C7: every order document, whichever path added it, has line prices equal to the
\* catalog prices at its creation and a subtotal that is the sum of those prices times
\* the quantities.
OrderAmountsFromCatalog ==
    \A o \in 1..Len(orders) :
        /\ \A k \in 1..Len(orders[o].items) :
               orders[o].items[k].price = audit[o].prices[orders[o].items[k].productId]
        /\ orders[o].subtotal = CatalogSubtotal(orders[o].items, audit[o].prices)

\* C8: an order that was not paid becomes paid only in the commit of a verifyPayment
\* request for it that carries a valid signature.
PaidOnlyByVerifiedSettlement ==
    [][\A o \in 1..Len(orders) :
           (orders[o].status # "paid" /\ orders'[o].status = "paid") =>
               \E i \in RequestSlots :
                   /\ vp[i].pc = "read"
                   /\ vp'[i].pc = "idle"
                   /\ ValidlySigned(vp[i].req)
                   /\ Val(vp[i].req.orderId) = o
                   /\ last'.fn = "verifyPayment"
                   /\ last'.status = 200]_vars

\* C9: every order createOrder persisted has shipping 0 exactly when its subtotal reaches
\* the configured threshold and the configured flat cost otherwise, for every configured
\* value, 0 included; the defaults stand in only when no settings exist.
ShippingByConfiguredSettings ==
    \A o \in CreatedByFunction :
        orders[o].shipping =
            IF orders[o].subtotal >= ConfiguredThreshold(audit[o].settingsDoc)
            THEN 0
            ELSE ConfiguredShippingCost(audit[o].settingsDoc)

\* C10: every order createOrder persisted has gst equal to subtotal times the configured
\* rate over 100, rounded half up, for every configured rate, 0 included, and a total
\* that is subtotal plus shipping plus gst.
GstByConfiguredRate ==
    \A o \in CreatedByFunction :
        /\ orders[o].gst =
               MathRound(orders[o].subtotal * ConfiguredGstRate(audit[o].settingsDoc), 100)
        /\ orders[o].totalAmount = orders[o].subtotal + orders[o].shipping + orders[o].gst

\* the lines of a cart whose product the catalog does not have, and those that ask for
\* more than the finite stock the catalog records
MissingLines(items) == { k \in 1..Len(items) : items[k].productId \notin DOMAIN products }
ShortLines(items) ==
    { k \in 1..Len(items) :
        /\ items[k].productId \in DOMAIN products
        /\ products[items[k].productId].stock # None
        /\ Val(products[items[k].productId].stock) < items[k].quantity }

\* the first line of a cart that fails, 0 when none does
FirstFailingLine(items) ==
    IF MissingLines(items) \cup ShortLines(items) = {}
    THEN 0
    ELSE CHOOSE k \in MissingLines(items) \cup ShortLines(items) :
             \A j \in MissingLines(items) \cup ShortLines(items) : k <= j

\* a createOrder step that answers 400 and creates neither an order nor a gateway order
RejectedWith400 ==
    /\ last'.fn = "createOrder"
    /\ last'.status = 400
    /\ orders' = orders
    /\ gatewayOrders' = gatewayOrders
    /\ co' = co

\* C11 as stated: a cart with a line for a product the catalog does not have is answered
\* 400 naming that identifier, wherever the line stands and whatever the other lines are.
MissingProductAlwaysNamed ==
    [][\A items \in RequestCarts :
           (MissingLines(items) # {} /\ createOrderReceive(OrderRequest(items))) =>
               /\ RejectedWith400
               /\ \E k \in MissingLines(items) :
                      last'.error = << "Product not found", items[k].productId >>]_vars

\* C11 as amended: a validly addressed cart with a line for a product the catalog does
\* not have is answered 400 and creates neither an order nor a gateway order, wherever the
\* line stands; the response reports the first failing line in cart order, so it names
\* the missing identifier when no earlier line is short of stock.
MissingProductRejected ==
    [][\A items \in RequestCarts :
           (MissingLines(items) # {} /\ createOrderReceive(OrderRequest(items))) =>
               /\ RejectedWith400
               /\ FirstFailingLine(items) \in MissingLines(items) =>
                      last'.error =
                          << "Product not found", items[FirstFailingLine(items)].productId >>
               /\ FirstFailingLine(items) \in ShortLines(items) =>
                      last'.error[1] = "out of stock"]_vars

\* a cart was rejected naming the product the catalog does not have, and nothing was created
MissingProductNamed ==
    /\ last.fn = "createOrder"
    /\ last.status = 400
    /\ last.error = << "Product not found", MissingId >>
    /\ orders = << >>
    /\ gatewayOrders = << >>

\* C12: a validly addressed cart with a line that asks for more than the finite stock of
\* its product is answered 400 and creates neither an order nor a gateway order; a cart
\* whose products all exist and whose lines ask for no more than the finite stock, or
\* for a product with no stock field, is accepted for pricing.
InsufficientStockRejected ==
    [][\A items \in RequestCarts :
           (items # << >> /\ createOrderReceive(OrderRequest(items))) =>
               /\ ShortLines(items) # {} => RejectedWith400
               /\ FirstFailingLine(items) = 0 =>
                      /\ co'.pc = "priced"
                      /\ Len(co'.verifiedItems) = Len(items)]_vars

\* a cart was rejected for stock, and nothing was created
RejectedForStock ==
    /\ last.fn = "createOrder"
    /\ last.status = 400
    /\ last.error = << "out of stock", "p1", Some(5) >>
    /\ orders = << >>
    /\ gatewayOrders = << >>

\* C13: once a createOrder call has ended, a gateway order it created exists exactly when
\* its order document was persisted: as many gateway orders as order documents.
GatewayOrderIffOrderPersisted ==
    co.pc = "idle" => Len(gatewayOrders) = Cardinality(CreatedByFunction)

\* the customer and address fields the claim requires of a request
RequiredFieldMissing(req) ==
    \/ Len(req.items) = 0
    \/ \E f \in {"name", "email", "phone"} : req.customer[f] = ""
    \/ \E f \in {"address", "city", "state", "pincode"} : req.shippingAddress[f] = ""

\* C16: a request whose cart is empty, or in which any of customer name, email, phone or
\* of shipping address, city, state, pincode is missing or empty, is answered 400, and
\* the call goes no further: no read is kept, no gateway order, no order document.
IncompleteRequestRejected ==
    [][\A req \in IntakeRequests :
           (RequiredFieldMissing(req) /\ createOrderReceive(req)) => RejectedWith400]_vars

\* the requests with all four fields present
CompleteRequests == { req \in SettlementRequests : ~missingVerifyField(req) }

\* C17: of the verifyPayment requests with all four fields, one with an invalid signature
\* is answered 400 whether or not its order exists, one with a valid signature for an
\* order that does not exist is answered 404, a 404 is given to no other request, and a
\* step answered 404 leaves the orders, the products and the requests in flight unchanged.
SignatureCheckedBeforeLookup ==
    [][\A i \in RequestSlots, req \in CompleteRequests :
           verifyPaymentReceive(i, req) =>
               /\ ~ValidlySigned(req) =>
                      /\ last'.fn = "verifyPayment"
                      /\ last'.status = 400
                      /\ last'.error = << "Payment verification failed" >>
               /\ (ValidlySigned(req) /\ Val(req.orderId) \notin 1..Len(orders)) =>
                      /\ last'.fn = "verifyPayment"
                      /\ last'.status = 404
                      /\ orders' = orders
                      /\ products' = products
                      /\ vp' = vp
               /\ (ValidlySigned(req) /\ Val(req.orderId) \in 1..Len(orders)) =>
                      /\ last' = last
                      /\ vp'[i].pc = "read"]_vars

\* a request with an invalid signature was answered 400 while no order existed
MismatchRejectedForMissingOrder ==
    /\ last.fn = "verifyPayment"
    /\ last.status = 400
    /\ last.error = << "Payment verification failed" >>
    /\ orders = << >>

\* C18: when createOrder has answered 200, the amount it returned is the totalAmount of
\* the order it persisted and the gateway order reference it returned is the one stored
\* in that order; and the gateway order of every order createOrder persisted was
\* requested for totalAmount times 100.
ResponseMatchesPersistedOrder ==
    /\ (last.fn = "createOrder" /\ last.status = 200) =>
           LET body == Val(last.body)
           IN  /\ body.orderId \in 1..Len(orders)
               /\ body.amount = orders[body.orderId].totalAmount
               /\ orders[body.orderId].razorpayOrderId = Some(body.razorpayOrderId)
               /\ body.currency = "INR"
    /\ \A o \in CreatedByFunction :
           /\ Val(orders[o].razorpayOrderId) \in 1..Len(gatewayOrders)
           /\ gatewayOrders[Val(orders[o].razorpayOrderId)] = orders[o].totalAmount * 100
           /\ orders[o].totalAmount = orders[o].subtotal + orders[o].shipping + orders[o].gst

\* createOrder has answered 200 for an order with a tax and a shipping fee in its total
OrderCreatedAndAnswered ==
    /\ last.fn = "createOrder"
    /\ last.status = 200
    /\ orders[Val(last.body).orderId].gst > 0
    /\ orders[Val(last.body).orderId].shipping > 0

\* the fields of an order that creation fixes
PricingOf(order) ==
    << order.customer, order.shippingAddress, order.items, order.itemCount, order.subtotal,
       order.shipping, order.gst, order.totalAmount >>

\* C14: verifyPayment changes an order along pending -> paid only: the commit of a
\* settlement for an order that is not pending leaves its status and its payment
\* identifiers as they were.
SettlementOnlyFromPending ==
    [][\A i \in RequestSlots :
           (/\ vp[i].pc = "read"
            /\ vp'[i].pc = "idle"
            /\ last'.fn = "verifyPayment"
            /\ last'.status = 200
            /\ orders[Val(vp[i].req.orderId)].status # "pending") =>
               orders'[Val(vp[i].req.orderId)] = orders[Val(vp[i].req.orderId)]]_vars

\* C15: every order is created pending, and an order that is no longer pending is never
\* set back to pending, by verifyPayment or by the administrator's updateOrderStatus.
NeverBackToPending ==
    [][/\ \A o \in (Len(orders) + 1)..Len(orders') : orders'[o].status = "pending"
       /\ \A o \in 1..Len(orders) :
              orders[o].status # "pending" => orders'[o].status # "pending"]_vars

\* C19: a step leaves the customer, the shipping address, the items, the item count and
\* the amounts of every existing order as they were, whether it is a settlement, a price
\* edit or a createOrder call for another order; and the item prices of an order stay the
\* catalog prices read at its creation.
OrderPricingImmutable ==
    /\ [][\A o \in 1..Len(orders) : PricingOf(orders'[o]) = PricingOf(orders[o])]_vars
    /\ [](\A o \in CreatedByFunction : \A k \in 1..Len(orders[o].items) :
              orders[o].items[k].price = audit[o].prices[orders[o].items[k].productId])

\* an order is paid, the price of one of its products was edited since, and another order
\* was created after it at the new price
PaidOrderKeepsOldPrice ==
    /\ Len(orders) = 2
    /\ orders[1].status = "paid"
    /\ \E k \in 1..Len(orders[1].items) :
           orders[1].items[k].price # products[orders[1].items[k].productId].price
    /\ audit[2].prices # audit[1].prices

\* C20: the e-mail notification of submitContact is best effort.  While the mail is
\* being attempted the document of the request is the one stored last; the step that
\* ends the attempt answers 200 success and leaves the stored messages alone, whether
\* or not the transport accepted the mail.
MailFailureNeverPropagated ==
    /\ [](sc.pc = "mail" =>
            /\ contactMessages # << >>
            /\ contactMessages[Len(contactMessages)] = sc.contactData)
    /\ [][sc.pc = "mail" /\ sc'.pc = "idle" =>
            /\ last' = Response("submitContact", 200, << >>,
                                Some([success |-> TRUE, message |-> "Message sent successfully"]))
            /\ contactMessages' = contactMessages]_vars
    /\ [][contactMessages' # contactMessages =>
            /\ sc'.pc = "mail"
            /\ contactMessages' = Append(contactMessages, sc'.contactData)]_vars

\* the one stored message was answered 200 although no mail went out
StoredAndAnsweredWithoutMail ==
    /\ sc.pc = "idle"
    /\ Len(contactMessages) = 1
    /\ outbox = << >>
    /\ last.fn = "submitContact"
    /\ last.status = 200

\* C23: in the browser checkout the payment widget is open only for a valid form, a cart
\* that is not empty and an order that was created in the orders collection, so that no
\* payment is collected for an order that was not persisted.
WidgetOnlyForPersistedOrder ==
    checkout.pc = "widget" =>
        /\ checkout.orderData.itemCount > 0
        /\ checkout.orderId # None
        /\ Val(checkout.orderId) \in 1..Len(orders)

\* C26: a product whose stock field is absent keeps it absent through every createOrder
\* and verifyPayment call, and no createOrder call is answered that it is out of stock.
UnlimitedStockStaysUnlimited ==
    /\ \A p \in CatalogIds : InitProducts[p].stock = None => products[p].stock = None
    /\ \A p \in CatalogIds :
           (InitProducts[p].stock = None /\ last.fn = "createOrder" /\ last.error # << >>) =>
               ~(last.error[1] = "out of stock" /\ last.error[2] = p)

\* the storefront cart that holds the lines of a posted cart at the prices of a catalog
StorefrontCart(items, prods) ==
    [k \in 1..Len(items) |-> [id |-> items[k].productId,
                              price |-> prods[items[k].productId].price,
                              quantity |-> items[k].quantity]]

\* C29: for every cart createOrder accepts, PremamCart.getTotal over the same lines at the
\* catalog prices returns the subtotal, shipping, gst and total that createOrder computes
\* under the settings document in place, or under its defaults when there is none.
StorefrontTotalsMatchServer ==
    \A items \in SettlementCarts :
        LET priced == verifyItems(items, products, 1, 0, << >>)
            shown == getTotal(StorefrontCart(items, products))
        IN  priced.error = << >> =>
                /\ shown.subtotal = priced.subtotal
                /\ shown.shipping = shippingFor(priced.subtotal, settings)
                /\ shown.gst = gstFor(priced.subtotal, settings)
                /\ shown.total = totalFor(priced.subtotal, settings)

\* C24: an order becomes paid only in the commit of a request whose gateway order
\* reference is the one stored in that order at its creation, and that commit takes the
\* stock down for the lines of that order only.
SettlementMatchesGatewayReference ==
    [][\A o \in 1..Len(orders) :
           (orders[o].status # "paid" /\ orders'[o].status = "paid") =>
               \E i \in RequestSlots :
                   /\ vp[i].pc = "read"
                   /\ vp'[i].pc = "idle"
                   /\ vp[i].req.razorpayOrderId = orders[o].razorpayOrderId]_vars

\* C25: when every order has quantities of at least one, asks per product for no more
\* than the stock the catalog started with, and was settled at most once, every finite
\* stock is zero or more.
StockNeverNegative ==
    (\A o \in 1..Len(orders) :
         /\ Len(settled[o]) <= 1
         /\ \A k \in 1..Len(orders[o].items) : orders[o].items[k].quantity >= 1
         /\ \A p \in CatalogIds :
                InitProducts[p].stock # None =>
                    QtyOf(orders[o].items, p) <= Val(InitProducts[p].stock))
    => \A p \in CatalogIds : InitProducts[p].stock # None => StockNum(products, p) >= 0

\* C27: every order createOrder persisted has a quantity of at least one on every line,
\* a subtotal of zero or more and a total above zero.
PersistedQuantitiesPositive ==
    \A o \in CreatedByFunction :
        /\ \A k \in 1..Len(orders[o].items) : orders[o].items[k].quantity >= 1
        /\ orders[o].subtotal >= 0
        /\ orders[o].totalAmount > 0

\* C28: a cart createOrder accepts for pricing asks, over all its lines together, for no
\* more of a product than the finite stock the catalog records at the call.
CartQuantityWithinStock ==
    [][\A items \in StockCarts :
           (createOrderReceive(OrderRequest(items)) /\ co'.pc = "priced") =>
               \A p \in CatalogIds :
                   products[p].stock # None => QtyOf(items, p) <= Val(products[p].stock)]_vars

\* C22: after any subscribeNewsletter calls, one after another or overlapping, the
\* newsletter collection holds at most one document per normalised e-mail address.
OneDocumentPerEmail ==
    \A j, k \in 1..Len(newsletter) : newsletter[j] = newsletter[k] => j = k

\* C21: once the sign-in handler and the auth state listener have both run, the admin
\* layout is shown only while the signed-in account is on the allow list: an account that
\* is not on it is never left on the admin layout.
NonAdminNeverLeftOnAdminLayout ==
    (signIn = None /\ authListener = << >> /\ adminPage.layout = "admin") =>
        (auth # None /\ isAdminEmail(Val(auth)))

\* the quantity the cart holds of a product, over all the items with its id
CartQuantityOf(items, productId) ==
    SumSeq([k \in 1..Len(items) |-> IF items[k].id = productId THEN items[k].quantity ELSE 0])

\* at most one item per product id, every quantity at least one, getCount the sum of the
\* quantities held per product
CartItemsWellFormed ==
    /\ \A j, k \in 1..Len(premamCart) : premamCart[j].id = premamCart[k].id => j = k
    /\ \A k \in 1..Len(premamCart) : premamCart[k].quantity >= 1
    /\ \A k \in 1..Len(premamCart) : premamCart[k].id \in CatalogIds
    /\ getCount(premamCart) = CartQuantityOf(premamCart, "p1") + CartQuantityOf(premamCart, "p2")

====
